---- MODULE Spec2Model ----
(***************************************************************************)
(* The NexTask store (src/vitereact/src/store/main.tsx): the in-memory     *)
(* task list, its transient fields, and the localStorage slot              *)
(* 'nex_task_tasks' that load_tasks_from_local_storage reads and that      *)
(* add_new_task, toggle_task_completion and delete_task overwrite.         *)
(*                                                                         *)
(* A JavaScript string is kept as the sequence of its runs: "aab" is       *)
(* <<Run("a", 2), Run("b", 1)>>, adjacent runs having different            *)
(* characters, so that equal strings are equal sequences.  The slot        *)
(* holds a JSON text, kept as its sequence of lexical tokens; JSON_parse   *)
(* and JSON_stringify convert between token sequences and values.  A       *)
(* JavaScript object is a record whose domain is the set of keys it has    *)
(* (a missing key reads as undefined); null is the value JSNull.           *)
(*                                                                         *)
(* Not modelled: the zustand persist middleware's own key 'nex_task_store' *)
(* (library code outside src/), rendering, the server.                     *)
(***************************************************************************)
EXTENDS Integers, Sequences, FiniteSets, TLC

VARIABLES
    app_status,              \* 'initialized' | 'local_storage_unavailable' | 'error'
    has_persisted_data,      \* boolean
    task_input_description,  \* string
    tasks_list,              \* array of tasks (whatever load put there)
    is_loading_tasks,        \* boolean
    error_message,           \* message or Undefined
    slot,                    \* localStorage item LOCAL_STORAGE_KEY
    faults,                  \* how many localStorage calls have thrown (unavailable, full)
    now,                     \* Date.now(), milliseconds
    timers,                  \* pending setTimeout callbacks: their due times, in scheduling order
    pc,                      \* "idle", or "loading" inside load_tasks_from_local_storage
    last_call                \* the store action that ran last and how it ended

vars == <<app_status, has_persisted_data, task_input_description, tasks_list,
          is_loading_tasks, error_message, slot, faults, now, timers, pc,
          last_call>>

-----------------------------------------------------------------------------
(* Program constants *)

TASK_DESCRIPTION_MAX_LENGTH == 256

ERROR_CLEAR_DELAY_MS == 3000

(* Bounds of the model *)

\* add_new_task is explored while tasks_list is shorter than this
MaxTasks == 2

\* the clock takes the values a + ERROR_CLEAR_DELAY_MS * b, a <= MaxMs, b <= MaxDelays
MaxMs == 1

MaxDelays == 1

\* a validation failure is explored while fewer timers than this are pending
MaxTimers == 1

\* localStorage calls may throw until this many have
MaxFaults == 1

-----------------------------------------------------------------------------
(* Strings *)

Undefined == "<undefined>"

SPACE == " "

EmptyString == <<>>

Run(c, n) == [c |-> c, n |-> n]

\* String.prototype.length
RECURSIVE length(_)
length(s) == IF s = <<>> THEN 0 ELSE Head(s).n + length(Tail(s))

\* s + t
concat(s, t) ==
    IF s = <<>> THEN t
    ELSE IF t = <<>> THEN s
    ELSE IF s[Len(s)].c = Head(t).c
        THEN SubSeq(s, 1, Len(s) - 1) \o <<Run(Head(t).c, s[Len(s)].n + Head(t).n)>>
                 \o Tail(t)
    ELSE s \o t

\* the string of the characters cs
RECURSIVE Chars(_)
Chars(cs) == IF cs = <<>> THEN <<>> ELSE concat(<<Run(Head(cs), 1)>>, Chars(Tail(cs)))

\* String.prototype.repeat, of a one-character string
Repeat(c, n) == IF n = 0 THEN <<>> ELSE <<Run(c, n)>>

\* String.prototype.trim: strips the white space at both ends
TrimStart(s) == IF s # <<>> /\ Head(s).c = SPACE THEN Tail(s) ELSE s

TrimEnd(s) == IF s # <<>> /\ s[Len(s)].c = SPACE THEN SubSeq(s, 1, Len(s) - 1) ELSE s

\* trim left out: the text as typed
trim_omitted(s) == s

trim(s) == TrimEnd(TrimStart(s))

DigitChars == <<"0", "1", "2", "3", "4", "5", "6", "7", "8", "9">>

\* Number.prototype.toString of a non-negative integer: its decimal digits
RECURSIVE toString(_)
toString(n) ==
    IF n < 10 THEN <<Run(DigitChars[n + 1], 1)>>
    ELSE concat(toString(n \div 10), <<Run(DigitChars[(n % 10) + 1], 1)>>)

-----------------------------------------------------------------------------
(* JavaScript values and JSON *)

JSNull == [null |-> TRUE]

IsNull(v) == "null" \in DOMAIN v

\* tokens of a JSON text: punctuation and literals, member names, string values
P(c) == [k |-> c]

K(name) == [k |-> "key", name |-> name]

S(chars) == [k |-> "string", chars |-> chars]

\* the order in which the keys of a task object are serialized (the order
\* new_task is built in, and the order JSON.parse found them in the samples)
KeyOrder == <<"id", "description", "completed">>

StringifyMember(obj, key) ==
    <<K(key), P(":")>> \o
        (IF key = "completed"
            THEN <<P(IF obj[key] THEN "true" ELSE "false")>>
            ELSE <<S(obj[key])>>)

RECURSIVE StringifyMembers(_, _)
StringifyMembers(obj, keys) ==
    IF keys = <<>> THEN <<>>
    ELSE LET rest == StringifyMembers(obj, Tail(keys)) IN
         IF Head(keys) \notin DOMAIN obj THEN rest
         ELSE StringifyMember(obj, Head(keys)) \o
                  (IF rest = <<>> THEN <<>> ELSE <<P(",")>> \o rest)

StringifyElement(e) ==
    IF IsNull(e) THEN <<P("null")>>
    ELSE <<P("{")>> \o StringifyMembers(e, KeyOrder) \o <<P("}")>>

RECURSIVE StringifyElements(_)
StringifyElements(list) ==
    IF list = <<>> THEN <<>>
    ELSE StringifyElement(Head(list)) \o
             (IF Tail(list) = <<>> THEN <<>>
              ELSE <<P(",")>> \o StringifyElements(Tail(list)))

\* JSON.stringify of an array of task objects
JSON_stringify(list) == <<P("[")>> \o StringifyElements(list) \o <<P("]")>>

SyntaxError == [ok |-> FALSE]

Parsed(isArray, val, rest) ==
    [ok |-> TRUE, isArray |-> isArray, val |-> val, rest |-> rest]

RECURSIVE ParseValue(_), ParseElements(_, _), ParseMembers(_, _)

ParseValue(toks) ==
    IF toks = <<>> THEN SyntaxError
    ELSE LET t == Head(toks)
             r == Tail(toks)
         IN  CASE t.k = "null" -> Parsed(FALSE, JSNull, r)
               [] t.k = "true" -> Parsed(FALSE, TRUE, r)
               [] t.k = "false" -> Parsed(FALSE, FALSE, r)
               [] t.k = "string" -> Parsed(FALSE, t.chars, r)
               [] t.k = "[" ->
                    IF r # <<>> /\ Head(r).k = "]"
                        THEN Parsed(TRUE, <<>>, Tail(r))
                        ELSE ParseElements(r, <<>>)
               [] t.k = "{" ->
                    IF r # <<>> /\ Head(r).k = "}"
                        THEN Parsed(FALSE, <<>>, Tail(r))
                        ELSE ParseMembers(r, <<>>)
               [] OTHER -> SyntaxError

ParseElements(toks, acc) ==
    LET e == ParseValue(toks) IN
    IF ~e.ok \/ e.rest = <<>> THEN SyntaxError
    ELSE IF Head(e.rest).k = ","
        THEN ParseElements(Tail(e.rest), Append(acc, e.val))
    ELSE IF Head(e.rest).k = "]"
        THEN Parsed(TRUE, Append(acc, e.val), Tail(e.rest))
    ELSE SyntaxError

ParseMembers(toks, obj) ==
    IF Len(toks) < 3 \/ toks[1].k # "key" \/ toks[2].k # ":" THEN SyntaxError
    ELSE LET name == toks[1].name
             m == ParseValue(SubSeq(toks, 3, Len(toks)))
         IN  IF ~m.ok \/ m.rest = <<>> THEN SyntaxError
             ELSE LET ext == [x \in DOMAIN obj \cup {name} |->
                                 IF x = name THEN m.val ELSE obj[x]]
                  IN  IF Head(m.rest).k = ","
                          THEN ParseMembers(Tail(m.rest), ext)
                      ELSE IF Head(m.rest).k = "}"
                          THEN Parsed(FALSE, ext, Tail(m.rest))
                      ELSE SyntaxError

\* JSON.parse: the value of a text, or a SyntaxError
JSON_parse(text) ==
    LET p == ParseValue(text) IN
    IF p.ok /\ p.rest = <<>> THEN [ok |-> TRUE, isArray |-> p.isArray, val |-> p.val]
    ELSE SyntaxError

-----------------------------------------------------------------------------
(* The environment: what the slot may hold at start, what the user may type *)

\* getItem's result: null when the key is absent, else the stored text
NoItem == [present |-> FALSE, text |-> <<>>]

Item(text) == [present |-> TRUE, text |-> text]

TaskText(id, description) ==
    <<P("{"), K("id"), P(":"), S(id), P(","),
      K("description"), P(":"), S(description)>>

InitialSlots ==
    { NoItem,
      \* the empty string
      Item(<<>>),
      \* []
      Item(<<P("["), P("]")>>),
      \* [{"id":"7","description":"a","completed":true}]
      Item(<<P("[")>> \o TaskText(Chars(<<"7">>), Chars(<<"a">>))
             \o <<P(","), K("completed"), P(":"), P("true"), P("}"), P("]")>>),
      \* [{"id":"7","description":"a"}]
      Item(<<P("[")>> \o TaskText(Chars(<<"7">>), Chars(<<"a">>)) \o <<P("}"), P("]")>>),
      \* [null]
      Item(<<P("["), P("null"), P("]")>>),
      \* {"tasks_list":"not-an-array"}
      Item(<<P("{"), K("tasks_list"), P(":"),
             S(Chars(<<"n", "o", "t", "-", "a", "n", "-", "a", "r", "r", "a", "y">>)),
             P("}")>>),
      \* [
      Item(<<P("[")>>) }

\* texts typed into the input field
Inputs ==
    { EmptyString,
      Chars(<<SPACE>>),
      concat(Chars(<<SPACE>>),
             concat(Repeat("a", TASK_DESCRIPTION_MAX_LENGTH), Chars(<<SPACE>>))),
      Repeat("a", TASK_DESCRIPTION_MAX_LENGTH + 1) }

\* an id no task has
NoSuchId == Chars(<<"x">>)

ClockValues ==
    { a + ERROR_CLEAR_DELAY_MS * b : a \in 0..MaxMs, b \in 0..MaxDelays }

-----------------------------------------------------------------------------
(* Helpers of the store actions *)

EMPTY_MESSAGE == "Task cannot be empty."

TOO_LONG_MESSAGE == "Task is too long (max 256 characters)."

CORRUPTED_MESSAGE == "Corrupted data in local storage."

UNAVAILABLE_MESSAGE ==
    "Failed to load data from browser storage. Data might be corrupted or storage is full."

\* truthiness of a string or undefined: every message is a non-empty string
MessageTruthy(m) == m # Undefined

\* the length check written with >= in place of >
validation_error_off_by_one(trimmed_description) ==
    IF trimmed_description = EmptyString THEN EMPTY_MESSAGE
    ELSE IF length(trimmed_description) >= TASK_DESCRIPTION_MAX_LENGTH
        THEN TOO_LONG_MESSAGE
    ELSE Undefined

\* the validation of add_new_task: the message it sets, or Undefined when valid
validation_error(trimmed_description) ==
    IF trimmed_description = EmptyString THEN EMPTY_MESSAGE
    ELSE IF length(trimmed_description) > TASK_DESCRIPTION_MAX_LENGTH
        THEN TOO_LONG_MESSAGE
    ELSE Undefined

new_task(trimmed_description, millis) ==
    [id |-> toString(millis), description |-> trimmed_description, completed |-> FALSE]

\* task.id === task_id, for an object task
IdIs(task, task_id) == "id" \in DOMAIN task /\ task.id = task_id

\* !task.completed, undefined being falsy
NotCompleted(task) == IF "completed" \in DOMAIN task THEN ~task.completed ELSE TRUE

\* { ...task, completed: !task.completed }
Flipped(task) ==
    [x \in DOMAIN task \cup {"completed"} |->
        IF x = "completed" THEN NotCompleted(task) ELSE task[x]]

\* reading task.id of null throws a TypeError
ThrowsTypeError(list) == \E i \in 1..Len(list) : IsNull(list[i])

\* updated_tasks of toggle_task_completion
toggled(list, task_id) ==
    [i \in 1..Len(list) |->
        IF IdIs(list[i], task_id) THEN Flipped(list[i]) ELSE list[i]]

\* updated_tasks of delete_task
without(list, task_id) == SelectSeq(list, LAMBDA task : ~IdIs(task, task_id))

\* the list as it was before the action written in place of updated_tasks
setItem_stale(updated_tasks) == Item(JSON_stringify(tasks_list))

\* localStorage.setItem(LOCAL_STORAGE_KEY, JSON.stringify(updated_tasks)) when it
\* does not throw
setItem(updated_tasks) == Item(JSON_stringify(updated_tasks))

\* whether a localStorage call throws is the environment's choice
StorageThrows == IF faults < MaxFaults THEN BOOLEAN ELSE {FALSE}

Call(op, outcome, storage) == [op |-> op, outcome |-> outcome, storage |-> storage]

\* the setItem call left out of the action
Persist_forgotten(updated_tasks, normal_outcome, op) ==
    /\ slot' = slot
    /\ faults' = faults
    /\ last_call' = Call(op, normal_outcome, "ok")

\* what a list-mutating action leaves in the slot, and how it ends: nothing
\* catches the exception of setItem
Persist(updated_tasks, normal_outcome, op) ==
    \E throws \in StorageThrows :
        IF throws
            THEN /\ slot' = slot
                 /\ faults' = faults + 1
                 /\ last_call' = Call(op, "StorageError", "threw")
            ELSE /\ slot' = setItem(updated_tasks)
                 /\ faults' = faults
                 /\ last_call' = Call(op, normal_outcome, "ok")

-----------------------------------------------------------------------------
(* Initial state: lines 53-58 of the store, and the environment *)

Init ==
    /\ app_status = "initialized"
    /\ has_persisted_data = FALSE
    /\ task_input_description = EmptyString
    /\ tasks_list = <<>>
    /\ is_loading_tasks = TRUE
    /\ error_message = Undefined
    /\ slot \in InitialSlots
    /\ faults = 0
    /\ now = 0
    /\ timers = <<>>
    /\ pc = "idle"
    /\ last_call = Call("none", "none", "none")

-----------------------------------------------------------------------------
(* Store actions *)

set_task_input_description ==
    /\ pc = "idle"
    /\ \E description \in Inputs :
        task_input_description' = description
    /\ error_message' = IF MessageTruthy(error_message) THEN Undefined ELSE error_message
    /\ last_call' = Call("set_task_input_description", "void", "none")
    /\ UNCHANGED <<app_status, has_persisted_data, tasks_list, is_loading_tasks,
                   slot, faults, now, timers, pc>>

\* a clear_error_message that also cancels the pending timers
clear_error_message_cancels_timers ==
    /\ pc = "idle"
    /\ error_message' = Undefined
    /\ timers' = <<>>
    /\ last_call' = Call("clear_error_message", "void", "none")
    /\ UNCHANGED <<app_status, has_persisted_data, task_input_description, tasks_list,
                   is_loading_tasks, slot, faults, now, pc>>

clear_error_message ==
    /\ pc = "idle"
    /\ error_message' = Undefined
    /\ last_call' = Call("clear_error_message", "void", "none")
    /\ UNCHANGED <<app_status, has_persisted_data, task_input_description, tasks_list,
                   is_loading_tasks, slot, faults, now, timers, pc>>

\* a timer callback that leaves the message in place
timer_fires_keeps_message ==
    /\ pc = "idle"
    /\ timers # <<>>
    /\ Head(timers) <= now
    /\ timers' = Tail(timers)
    /\ last_call' = Call("clear_error_message", "void", "none")
    /\ UNCHANGED <<app_status, has_persisted_data, task_input_description, tasks_list,
                   is_loading_tasks, error_message, slot, faults, now, pc>>

\* the callback of setTimeout(() => clear_error_message(), 3000)
timer_fires ==
    /\ pc = "idle"
    /\ timers # <<>>
    /\ Head(timers) <= now
    /\ timers' = Tail(timers)
    /\ error_message' = Undefined
    /\ last_call' = Call("clear_error_message", "void", "none")
    /\ UNCHANGED <<app_status, has_persisted_data, task_input_description, tasks_list,
                   is_loading_tasks, slot, faults, now, pc>>

\* a start of load that does not raise the loading flag
load_begin_keeps_flag ==
    /\ pc = "idle"
    /\ pc' = "loading"
    /\ UNCHANGED <<app_status, has_persisted_data, task_input_description, tasks_list,
                   is_loading_tasks, error_message, slot, faults, now, timers, last_call>>

\* set({ is_loading_tasks: true })
load_begin ==
    /\ pc = "idle"
    /\ pc' = "loading"
    /\ is_loading_tasks' = TRUE
    /\ UNCHANGED <<app_status, has_persisted_data, task_input_description, tasks_list,
                   error_message, slot, faults, now, timers, last_call>>

\* load_result with a non-array branch that keeps the list in memory
load_result_keeps_list(throws) ==
    LET stored_tasks == slot
        parsed_tasks == JSON_parse(stored_tasks.text)
        caught == [tasks_list |-> <<>>, app_status |-> "local_storage_unavailable",
                   error_message |-> UNAVAILABLE_MESSAGE, has_persisted_data |-> FALSE]
    IN  IF throws THEN caught
        ELSE IF ~(stored_tasks.present /\ stored_tasks.text # <<>>)
            THEN [tasks_list |-> <<>>, app_status |-> app_status,
                  error_message |-> error_message, has_persisted_data |-> FALSE]
        ELSE IF ~parsed_tasks.ok THEN caught
        ELSE IF parsed_tasks.isArray
            THEN [tasks_list |-> parsed_tasks.val, app_status |-> "initialized",
                  error_message |-> error_message,
                  has_persisted_data |-> Len(parsed_tasks.val) > 0]
        ELSE [tasks_list |-> tasks_list, app_status |-> "error",
              error_message |-> CORRUPTED_MESSAGE,
              has_persisted_data |-> has_persisted_data]

\* load_result with a catch block that leaves has_persisted_data alone
load_result_catch_keeps_flag(throws) ==
    LET stored_tasks == slot
        parsed_tasks == JSON_parse(stored_tasks.text)
        caught == [tasks_list |-> <<>>, app_status |-> "local_storage_unavailable",
                   error_message |-> UNAVAILABLE_MESSAGE,
                   has_persisted_data |-> has_persisted_data]
    IN  IF throws THEN caught
        ELSE IF ~(stored_tasks.present /\ stored_tasks.text # <<>>)
            THEN [tasks_list |-> <<>>, app_status |-> app_status,
                  error_message |-> error_message, has_persisted_data |-> FALSE]
        ELSE IF ~parsed_tasks.ok THEN caught
        ELSE IF parsed_tasks.isArray
            THEN [tasks_list |-> parsed_tasks.val, app_status |-> "initialized",
                  error_message |-> error_message,
                  has_persisted_data |-> Len(parsed_tasks.val) > 0]
        ELSE [tasks_list |-> <<>>, app_status |-> "error",
              error_message |-> CORRUPTED_MESSAGE,
              has_persisted_data |-> has_persisted_data]

\* the state fields the try/catch of load_tasks_from_local_storage sets, getItem
\* throwing or not
load_result(throws) ==
    LET stored_tasks == slot
        parsed_tasks == JSON_parse(stored_tasks.text)
        caught == [tasks_list |-> <<>>, app_status |-> "local_storage_unavailable",
                   error_message |-> UNAVAILABLE_MESSAGE, has_persisted_data |-> FALSE]
    IN  IF throws THEN caught
        ELSE IF ~(stored_tasks.present /\ stored_tasks.text # <<>>)
            THEN [tasks_list |-> <<>>, app_status |-> app_status,
                  error_message |-> error_message, has_persisted_data |-> FALSE]
        ELSE IF ~parsed_tasks.ok THEN caught
        ELSE IF parsed_tasks.isArray
            THEN [tasks_list |-> parsed_tasks.val, app_status |-> "initialized",
                  error_message |-> error_message,
                  has_persisted_data |-> Len(parsed_tasks.val) > 0]
        ELSE [tasks_list |-> <<>>, app_status |-> "error",
              error_message |-> CORRUPTED_MESSAGE,
              has_persisted_data |-> has_persisted_data]

load_finish ==
    /\ pc = "loading"
    /\ \E throws \in StorageThrows :
        /\ tasks_list' = load_result(throws).tasks_list
        /\ app_status' = load_result(throws).app_status
        /\ error_message' = load_result(throws).error_message
        /\ has_persisted_data' = load_result(throws).has_persisted_data
        /\ faults' = IF throws THEN faults + 1 ELSE faults
        /\ last_call' = Call("load_tasks_from_local_storage", "void",
                              IF throws THEN "threw" ELSE "ok")
    /\ is_loading_tasks' = FALSE
    /\ pc' = "idle"
    /\ UNCHANGED <<task_input_description, slot, now, timers>>

add_new_task ==
    /\ pc = "idle"
    /\ LET trimmed_description == trim(task_input_description)
           updated_tasks == Append(tasks_list, new_task(trimmed_description, now))
       IN  IF validation_error(trimmed_description) # Undefined
               THEN /\ Len(timers) < MaxTimers
                    /\ error_message' = validation_error(trimmed_description)
                    /\ timers' = Append(timers, now + ERROR_CLEAR_DELAY_MS)
                    /\ last_call' = Call("add_new_task", "false", "none")
                    /\ UNCHANGED <<tasks_list, task_input_description,
                                   has_persisted_data, slot, faults>>
               ELSE /\ Len(tasks_list) < MaxTasks
                    /\ tasks_list' = updated_tasks
                    /\ task_input_description' = EmptyString
                    /\ has_persisted_data' = TRUE
                    /\ Persist(updated_tasks, "true", "add_new_task")
                    /\ UNCHANGED <<error_message, timers>>
    /\ UNCHANGED <<app_status, is_loading_tasks, now, pc>>

\* the ids the rendered tasks offer, and one no task has
TaskIdArguments ==
    { tasks_list[i].id : i \in { j \in 1..Len(tasks_list) : "id" \in DOMAIN tasks_list[j] } }
        \cup {NoSuchId}

toggle_task_completion ==
    /\ pc = "idle"
    /\ \E task_id \in TaskIdArguments :
        IF ThrowsTypeError(tasks_list)
            THEN /\ last_call' = Call("toggle_task_completion", "TypeError", "none")
                 /\ UNCHANGED <<tasks_list, slot, faults>>
            ELSE /\ tasks_list' = toggled(tasks_list, task_id)
                 /\ Persist(toggled(tasks_list, task_id), "void", "toggle_task_completion")
    /\ UNCHANGED <<app_status, has_persisted_data, task_input_description,
                   is_loading_tasks, error_message, now, timers, pc>>

delete_task ==
    /\ pc = "idle"
    /\ \E task_id \in TaskIdArguments :
        IF ThrowsTypeError(tasks_list)
            THEN /\ last_call' = Call("delete_task", "TypeError", "none")
                 /\ UNCHANGED <<tasks_list, has_persisted_data, slot, faults>>
            ELSE /\ tasks_list' = without(tasks_list, task_id)
                 /\ has_persisted_data' = (Len(without(tasks_list, task_id)) > 0)
                 /\ Persist(without(tasks_list, task_id), "void", "delete_task")
    /\ UNCHANGED <<app_status, task_input_description, is_loading_tasks,
                   error_message, now, timers, pc>>

-----------------------------------------------------------------------------
(* Environment actions *)

\* time passes: a millisecond, or until the next timer is due
clock_advances ==
    /\ pc = "idle"
    /\ \E t \in {now + 1} \cup {timers[i] : i \in 1..Len(timers)} :
        /\ t > now
        /\ t \in ClockValues
        /\ now' = t
    /\ UNCHANGED <<app_status, has_persisted_data, task_input_description, tasks_list,
                   is_loading_tasks, error_message, slot, faults, timers, pc,
                   last_call>>

Next ==
    \/ set_task_input_description
    \/ clear_error_message
    \/ timer_fires
    \/ load_begin
    \/ load_finish
    \/ add_new_task
    \/ toggle_task_completion
    \/ delete_task
    \/ clock_advances

Spec == Init /\ [][Next]_vars

\* the step that ends a load: load_finish is the only action that takes pc from
\* "loading" to "idle", and it can always do so
load_completes == pc = "loading" /\ pc' = "idle"

\* The scheduling of the browser: time passes, a timer that is due gets its
\* callback run once no handler is running, and a handler that has started
\* runs to its end.
FairSpec ==
    /\ Spec
    /\ SF_vars(clock_advances)
    /\ SF_vars(timer_fires)
    /\ WF_pc(load_completes)

-----------------------------------------------------------------------------
(* Vocabulary of the properties *)

ListMutators == {"add_new_task", "toggle_task_completion", "delete_task"}

\* this step is a call of the store action op that has ended
Returns(op) == now' = now /\ pc' = "idle" /\ last_call'.op = op

\* the string is empty or holds white space only
IsBlank(s) == \A i \in 1..Len(s) : s[i].c = SPACE

IsObject(task) == ~IsNull(task)

\* the list a call of toggle_task_completion leaves: a TypeError leaves the list
ListAfterToggle(list, task_id) ==
    IF ThrowsTypeError(list) THEN list ELSE toggled(list, task_id)

\* the list a call of delete_task leaves
ListAfterDelete(list, task_id) ==
    IF ThrowsTypeError(list) THEN list ELSE without(list, task_id)

\* the slot holds a text whose value is exactly the in-memory list
SlotMirrorsList ==
    /\ slot.present
    /\ JSON_parse(slot.text) = [ok |-> TRUE, isArray |-> TRUE, val |-> tasks_list]

-----------------------------------------------------------------------------
(* C1 *)

\* C1: in every reachable state no two tasks of tasks_list have the same id.
\* The code breaks it: two add_new_task calls in one millisecond get the same
\* Date.now() id (and load accepts an array that repeats an id).
C1_IdsUnique ==
    \A i, j \in 1..Len(tasks_list) :
        (i # j /\ IsObject(tasks_list[i]) /\ "id" \in DOMAIN tasks_list[i])
            => ~IdIs(tasks_list[j], tasks_list[i].id)

(* C2 *)

\* C2: when the trimmed input is non-empty and at most 256 characters,
\* add_new_task returns true, tasks_list becomes the previous list followed by
\* one new task (the trimmed input, completed false) and the input is cleared.
\* The code breaks it when setItem throws: the call ends in the exception.
C2_ValidAddAppendsAndReturnsTrue ==
    [][ (/\ Returns("add_new_task")
         /\ trim(task_input_description) # EmptyString
         /\ length(trim(task_input_description)) <= 256)
        => (/\ last_call'.outcome = "true"
            /\ Len(tasks_list') = Len(tasks_list) + 1
            /\ SubSeq(tasks_list', 1, Len(tasks_list)) = tasks_list
            /\ tasks_list'[Len(tasks_list')].description = trim(task_input_description)
            /\ tasks_list'[Len(tasks_list')].completed = FALSE
            /\ task_input_description' = EmptyString) ]_vars

(* C3 *)

\* C3: when the input is empty or white space only, add_new_task returns false,
\* sets error_message to "Task cannot be empty." and leaves tasks_list, the slot
\* and app_status unchanged.
C3_BlankRejected ==
    [][ (Returns("add_new_task") /\ IsBlank(task_input_description))
        => (/\ last_call'.outcome = "false"
            /\ error_message' = "Task cannot be empty."
            /\ tasks_list' = tasks_list
            /\ slot' = slot
            /\ app_status' = app_status) ]_vars

\* a white-space-only input has just been rejected while the list holds a task
C3_Witness ==
    /\ last_call = Call("add_new_task", "false", "none")
    /\ task_input_description = Chars(<<SPACE>>)
    /\ error_message = EMPTY_MESSAGE
    /\ tasks_list # <<>>

(* C4 *)

\* C4: the length limit applies to the trimmed text, with the boundary at 256:
\* a trimmed description of exactly 256 characters is accepted (the task is
\* appended with that description, no message is set); one of 257 or more
\* makes add_new_task return false, set the too-long message and leave
\* tasks_list, the slot and app_status unchanged.
C4_LengthBoundary ==
    [][ Returns("add_new_task")
        => LET trimmed == trim(task_input_description) IN
           /\ length(trimmed) = 256
                => /\ last_call'.outcome # "false"
                   /\ Len(tasks_list') = Len(tasks_list) + 1
                   /\ tasks_list'[Len(tasks_list')].description = trimmed
                   /\ error_message' = error_message
           /\ length(trimmed) >= 257
                => /\ last_call'.outcome = "false"
                   /\ error_message' = TOO_LONG_MESSAGE
                   /\ tasks_list' = tasks_list
                   /\ slot' = slot
                   /\ app_status' = app_status ]_vars

\* a 257-character input has just been rejected, after a 256-character
\* description was accepted
C4_Witness ==
    /\ last_call = Call("add_new_task", "false", "none")
    /\ length(trim(task_input_description)) = 257
    /\ error_message = TOO_LONG_MESSAGE
    /\ \E i \in 1..Len(tasks_list) :
        /\ IsObject(tasks_list[i])
        /\ length(tasks_list[i].description) = 256

(* C5 *)

\* C5: for every reachable tasks_list and every id, toggling twice restores the
\* list exactly; one call flips the completed flag of the task with that id and
\* changes nothing else.  The code breaks it on a list load took from the slot
\* with a record that has no completed flag, and on one that holds null.
C5_ToggleTwiceRestores ==
    \A task_id \in TaskIdArguments :
        LET once == ListAfterToggle(tasks_list, task_id)
            twice == ListAfterToggle(once, task_id)
        IN  /\ twice = tasks_list
            /\ Len(once) = Len(tasks_list)
            /\ \A i \in 1..Len(tasks_list) :
                IF IdIs(tasks_list[i], task_id)
                    THEN /\ "completed" \in DOMAIN tasks_list[i]
                         /\ once[i] = [tasks_list[i] EXCEPT
                                          !.completed = ~tasks_list[i].completed]
                    ELSE once[i] = tasks_list[i]

(* C6 *)

\* C6: delete_task(id) removes exactly one task, the one with that id, keeping
\* the others and their order; with no such task, tasks_list and
\* has_persisted_data are unchanged.  The code breaks it on a list with a
\* repeated id: every task with that id goes.
C6_DeleteRemovesExactlyOne ==
    \A task_id \in TaskIdArguments :
        LET after == ListAfterDelete(tasks_list, task_id) IN
        IF \E k \in 1..Len(tasks_list) : IdIs(tasks_list[k], task_id)
            THEN \E k \in 1..Len(tasks_list) :
                    /\ IdIs(tasks_list[k], task_id)
                    /\ after = SubSeq(tasks_list, 1, k - 1)
                                   \o SubSeq(tasks_list, k + 1, Len(tasks_list))
            ELSE /\ after = tasks_list
                 /\ ThrowsTypeError(tasks_list)
                        \/ (Len(after) > 0) = has_persisted_data

(* C7 *)

\* C7: a load that reads the slot as a successful add, toggle or delete last
\* wrote it leaves tasks_list as it was in memory (ids, descriptions, flags,
\* order; the empty list too) and app_status initialized.
C7_RoundTrip ==
    [][ (/\ pc = "loading"
         /\ Returns("load_tasks_from_local_storage")
         /\ last_call.op \in ListMutators
         /\ last_call.storage = "ok"
         /\ last_call'.storage = "ok")
        => (/\ tasks_list' = tasks_list
            /\ app_status' = "initialized") ]_vars

\* a load has just read back a list of two tasks that the store wrote: one it
\* created (its id is the clock's) and a completed one
C7_Witness ==
    /\ last_call = Call("load_tasks_from_local_storage", "void", "ok")
    /\ app_status = "initialized"
    /\ Len(tasks_list) = 2
    /\ slot = setItem(tasks_list)
    /\ \E i \in 1..2 : IdIs(tasks_list[i], toString(now))
    /\ \E i \in 1..2 : IsObject(tasks_list[i]) /\ ~NotCompleted(tasks_list[i])

(* C8 *)

C9_NoStorageFaultPropagates ==
    last_call.storage = "threw"
        => IF last_call.op \in ListMutators
               THEN last_call.outcome \in {"true", "void"}
               ELSE /\ last_call.outcome = "void"
                    /\ app_status = "local_storage_unavailable"
                    /\ error_message = UNAVAILABLE_MESSAGE

(* C10 *)

\* C10: once a load has completed, has_persisted_data is true exactly when
\* tasks_list is non-empty.  The code breaks it: a load that finds non-array
\* data empties the list and leaves has_persisted_data as it was.
C10_HasPersistedDataIffNonEmpty ==
    (pc = "idle" /\ ~is_loading_tasks)
        => (has_persisted_data <=> tasks_list # <<>>)

(* C11 *)

\* the element is a record with exactly the fields of Task
IsTaskShaped(task) ==
    /\ IsObject(task)
    /\ DOMAIN task = {"id", "description", "completed"}

\* C11: in every reachable state every element of tasks_list is a Task whose
\* description is non-empty, at most 256 characters long and has no leading or
\* trailing white space; load puts only sequences of Task-shaped records into
\* tasks_list.  The code breaks it: load checks Array.isArray only, so a
\* stored array that holds null or a record without a completed flag becomes
\* tasks_list.
C11_TasksWellFormed ==
    \A i \in 1..Len(tasks_list) :
        /\ IsTaskShaped(tasks_list[i])
        /\ tasks_list[i].description # EmptyString
        /\ length(tasks_list[i].description) <= 256
        /\ trim(tasks_list[i].description) = tasks_list[i].description

(* C12 *)

\* the slot holds a text that parses to a value that is not a sequence
SlotHoldsNonArray ==
    /\ slot.present
    /\ slot.text # <<>>
    /\ JSON_parse(slot.text).ok
    /\ ~JSON_parse(slot.text).isArray

\* C12: a load that reads a slot whose content parses to a non-sequence ends
\* with tasks_list empty, app_status error and the corrupted-data message,
\* whatever the state in memory was before.
C12_NonArrayIsCorruption ==
    [][ (/\ pc = "loading"
         /\ Returns("load_tasks_from_local_storage")
         /\ last_call'.storage = "ok"
         /\ SlotHoldsNonArray)
        => (/\ tasks_list' = <<>>
            /\ app_status' = "error"
            /\ error_message' = "Corrupted data in local storage.") ]_vars

\* a load has just found {"tasks_list": "not-an-array"} in the slot after an
\* add had put a task into the list in memory (its write failed, so the slot
\* kept its content and has_persisted_data is still true)
C12_Witness ==
    /\ last_call = Call("load_tasks_from_local_storage", "void", "ok")
    /\ SlotHoldsNonArray
    /\ app_status = "error"
    /\ error_message = CORRUPTED_MESSAGE
    /\ tasks_list = <<>>
    /\ has_persisted_data
    /\ faults = 1

(* C13 *)

\* the slot holds a non-empty text that JSON.parse rejects
SlotHoldsUnparseable ==
    /\ slot.present
    /\ slot.text # <<>>
    /\ ~JSON_parse(slot.text).ok

\* C13: a load whose getItem throws, or whose JSON.parse throws on the slot's
\* content, ends with tasks_list empty, app_status local_storage_unavailable,
\* has_persisted_data false and the storage-unavailable message, whatever the
\* state in memory was before.
C13_ThrowIsUnavailable ==
    [][ (/\ pc = "loading"
         /\ Returns("load_tasks_from_local_storage")
         /\ last_call'.storage = "threw" \/ SlotHoldsUnparseable)
        => (/\ tasks_list' = <<>>
            /\ app_status' = "local_storage_unavailable"
            /\ has_persisted_data' = FALSE
            /\ error_message' = UNAVAILABLE_MESSAGE) ]_vars

\* a load has just failed to parse the slot (getItem did not throw) after an
\* add whose write failed had put a task into the list in memory
C13_Witness ==
    /\ last_call = Call("load_tasks_from_local_storage", "void", "ok")
    /\ SlotHoldsUnparseable
    /\ app_status = "local_storage_unavailable"
    /\ error_message = UNAVAILABLE_MESSAGE
    /\ tasks_list = <<>>
    /\ ~has_persisted_data
    /\ faults = 1

(* C14 *)

\* add_new_task has just rejected the input: its message is showing and the
\* timer it scheduled, the last one, is due within the clock's range
ValidationMessageShowing ==
    /\ last_call = Call("add_new_task", "false", "none")
    /\ MessageTruthy(error_message)
    /\ timers # <<>>
    /\ timers[Len(timers)] \in ClockValues

\* C14: after a validation failure of add_new_task has set error_message, the
\* timer that call scheduled clears error_message, with no further user
\* action, provided time passes and the timer is allowed to fire.
C14_MessageEventuallyCleared ==
    ValidationMessageShowing ~> (error_message = Undefined)

\* 3000 ms after add_new_task rejected the input, with no call of the store in
\* between, the message is still showing and the timer of that call is due
C14_Witness ==
    /\ ValidationMessageShowing
    /\ pc = "idle"
    /\ timers = <<now>>
    /\ now >= ERROR_CLEAR_DELAY_MS

(* C15 *)

\* C15: load sets is_loading_tasks to true when it starts and to false when it
\* ends, on every path (data found, no data, corrupted data, exception); once
\* a load has completed is_loading_tasks stays false outside a load, and add,
\* toggle and delete leave it as it is.
C15_LoadingFlag ==
    [][ /\ (pc = "idle" /\ pc' = "loading") => is_loading_tasks'
        /\ (pc = "loading" /\ pc' = "idle") => ~is_loading_tasks'
        /\ (pc = "idle" /\ pc' = "idle" /\ ~is_loading_tasks) => ~is_loading_tasks'
        /\ (\E op \in ListMutators : Returns(op))
                => is_loading_tasks' = is_loading_tasks ]_vars

\* a second load is running (the flag is up again) after a first one ended in
\* the catch block and an add went through
C15_Witness ==
    /\ pc = "loading"
    /\ is_loading_tasks
    /\ app_status = "local_storage_unavailable"
    /\ last_call.op = "add_new_task"
    /\ last_call.outcome = "true"

(* C16 *)

\* the messages a failed load sets
LoadFailureMessages == {CORRUPTED_MESSAGE, UNAVAILABLE_MESSAGE}

\* C16: the error-clearing timers are never cancelled: a pending timer leaves
\* the queue only by firing when it is due, a new one joins it only by a
\* rejected add_new_task, and a timer that fires clears error_message whatever
\* message is showing, so that the timer of an earlier validation failure
\* clears the message of a later error.
C16_TimersNeverCancelled ==
    [][ timers' # timers
            => \/ /\ Returns("add_new_task")
                  /\ last_call'.outcome = "false"
                  /\ timers' = Append(timers, now + ERROR_CLEAR_DELAY_MS)
               \/ /\ timers # <<>>
                  /\ Head(timers) <= now
                  /\ timers' = Tail(timers)
                  /\ error_message' = Undefined ]_vars

\* the timer of a rejected add_new_task is due while the message showing is
\* the one a later load failure put in place of the validation message: the
\* timer's callback is about to clear a message it was not scheduled for
C16_Witness ==
    /\ pc = "idle"
    /\ timers # <<>>
    /\ Head(timers) <= now
    /\ error_message \in LoadFailureMessages
    /\ last_call.op = "load_tasks_from_local_storage"

====
